---- MODULE Spec2Model ----
(***************************************************************************)
(* dump_wfs.py: stream the features of one WFS layer to stdout as NDJSON.  *)
(*                                                                         *)
(* The module body of dump_wfs.py, the async generator get_features() and  *)
(* its consumer print_features_geojson() are modelled as one sequential    *)
(* program whose position is pc.  The OGR layer cursor, the command line   *)
(* and the WFS service are the environment: they are drawn in Init (env,   *)
(* faults) and the cursor answers each GetNextFeature() call with a        *)
(* feature, with None, or by raising.                                      *)
(***************************************************************************)
EXTENDS Integers, Sequences, FiniteSets

VARIABLES
    env,          \* command line, service and layer contents (never changes)
    pc,           \* position of the program
    pos,          \* cursor: number of features GetNextFeature() has returned
    faults,       \* cursor: transient failures the server may still produce
    num_features, \* get_features: estimated feature count
    n_features,   \* get_features: features seen
    backoff,      \* get_features: backoff level
    feat,         \* get_features: current feature
    schema,       \* get_features: names / gnames, cached from the first feature
    attrs,        \* get_features: attribute dict of the yielded feature
    g_attrs,      \* get_features: geometry dict of the yielded feature
    gi,           \* print_features_geojson: next item of g_attrs.items()
    stdout,       \* tokens written to sys.stdout
    progress,     \* stderr: 'Number of features seen so far' lines
    summary,      \* stderr: 'Final number of features seen' lines
    n_warn,       \* stderr: number of 'Skipping empty geom' lines
    listed,       \* stdout of the layer-listing mode: 'Layer i: name' lines
    exit_status,  \* exit status of the process, Running until it exits
    term,         \* which break left the loop
    calls,        \* history: GetNextFeature() calls made
    runFails,     \* history: failed calls since the last successful one
    slept,        \* history: time.sleep() durations since the last successful call
    retried,      \* history: the sleeps it took to fetch the current feature
    captures,     \* history: features the schema was captured from
    n_yield,      \* history: features yielded to the consumer
    curLines,     \* history: lines written for the feature being consumed
    curWarns      \* history: warnings written for the feature being consumed

vars == <<env, pc, pos, faults, num_features, n_features, backoff, feat, schema,
          attrs, g_attrs, gi, stdout, progress, summary, n_warn, listed,
          exit_status, term, calls, runFails, slept, retried, captures, n_yield,
          curLines, curWarns>>

---------------------------------------------------------------------------
(* Bounds of the model *)

\* features of a layer whose contents are enumerated exhaustively
MaxFeatures == 2
\* transient failures (raise, or anomalous None) the server may produce in a run
MaxFaults == 4
\* layers the service exposes
MaxLayers == 2
\* features of the long layer used for the progress cadence
LongFeatures == 25000
\* failed calls in a row after which the cursor is not asked again (never
\* reached by the program, which gives up after 4: see CapNeverBinds)
MaxRunFails == 6

(* Program constants *)

\* n_features % 10_000
ProgressEvery == 10000
\* if backoff >= 3
MaxBackoff == 3
\* num_features = 1e6
ArbitraryCount == 1000000

\* Python's None
None == [py |-> "None"]
\* a local variable that was never assigned
Unbound == [py |-> "unbound"]
\* exit_status while the process runs
Running == -1

---------------------------------------------------------------------------
(* The environment: command line, service, layer *)

SeqsUpTo(S, n) == UNION {[1..m -> S] : m \in 0..n}

LayerNames == <<"A", "B", "C">>
GeomNames == <<"geom", "geom2">>

\* the layer: its geometry field definitions, and its features.  Feature i has
\* the geometry fields pattern[((i-1) % Len(pattern)) + 1] says it has.
LayersOf(maxGeoms, maxFeat) ==
    UNION {{[gdefn |-> SubSeq(GeomNames, 1, k), pattern |-> p, total |-> Len(p)] :
               p \in SeqsUpTo([1..k -> BOOLEAN], maxFeat)} : k \in 0..maxGeoms}

SmallLayers == LayersOf(Len(GeomNames), MaxFeatures)

\* the long layers hold features without a geometry, which write no line: one
\* has a geometry field that is always null, one has no geometry field
LongLayers ==
    {[gdefn |-> <<"geom">>, pattern |-> <<<<FALSE>>>>, total |-> LongFeatures],
     [gdefn |-> <<>>, pattern |-> << <<>> >>, total |-> LongFeatures],
     [gdefn |-> <<"geom">>, pattern |-> <<<<TRUE>>>>, total |-> 1]}

DefaultEnv ==
    [argv |-> <<"dump_wfs.py", "url", "A">>, ds_ok |-> TRUE, layers |-> <<"A">>,
     layer |-> [gdefn |-> <<>>, pattern |-> <<>>, total |-> 0], faults |-> 0]

UsageEnvs == {[DefaultEnv EXCEPT !.argv = SubSeq(@, 1, n)] : n \in 1..2}
OpenFailEnvs == {[DefaultEnv EXCEPT !.ds_ok = FALSE]}
ListEnvs ==
    {[DefaultEnv EXCEPT !.argv[3] = "", !.layers = SubSeq(LayerNames, 1, k)] :
        k \in 0..MaxLayers}
MissingEnvs ==
    {[DefaultEnv EXCEPT !.argv[3] = "Z", !.layers = SubSeq(LayerNames, 1, k)] :
        k \in 0..MaxLayers}
StreamEnvs(layers, budgets) ==
    {[DefaultEnv EXCEPT !.argv = a, !.layer = l, !.faults = f] :
        a \in {<<"dump_wfs.py", "url", "A">>, <<"dump_wfs.py", "url", "A", "">>,
               <<"dump_wfs.py", "url", "A", "f">>},
        l \in layers, f \in budgets}

OtherEnvs == UsageEnvs \cup OpenFailEnvs \cup ListEnvs \cup MissingEnvs

\* feature i of the layer: attribute fields and geometry fields
FeatureAt(i) ==
    LET l == env.layer
        row == l.pattern[((i - 1) % Len(l.pattern)) + 1]
    IN [fid |-> i,
        fields |-> <<i>>,
        geoms |-> [j \in 1..Len(l.gdefn) |->
                      IF row[j] THEN [fid |-> i, field |-> j] ELSE None]]

\* the attribute field names of the layer definition
FieldNames == <<"id">>

---------------------------------------------------------------------------
(* Module level, lines 21-39 and 149-167 *)

\* sys.argv[3] if sys.argv[3:] else None
server_attribute_filter == IF Len(env.argv) >= 4 THEN env.argv[4] ELSE ""
layer_name == env.argv[3]

\* wfs_ds.GetLayerByName(layer_name) is not None
LayerFound == \E i \in 1..Len(env.layers) : env.layers[i] = layer_name

\* the process ends with status s
ExitWith(s) ==
    /\ pc' = "exited"
    /\ exit_status' = s

InitOver(envs) ==
    /\ env \in envs
    /\ pc = "main"
    /\ pos = 0
    /\ faults = env.faults
    /\ num_features = 0
    /\ n_features = 0
    /\ backoff = 0
    /\ feat = Unbound
    /\ schema = Unbound
    /\ attrs = <<>>
    /\ g_attrs = <<>>
    /\ gi = 1
    /\ stdout = <<>>
    /\ progress = <<>>
    /\ summary = <<>>
    /\ n_warn = 0
    /\ listed = <<>>
    /\ exit_status = Running
    /\ term = "none"
    /\ calls = 0
    /\ runFails = 0
    /\ slept = <<>>
    /\ retried = <<>>
    /\ captures = <<>>
    /\ n_yield = 0
    /\ curLines = 0
    /\ curWarns = 0

\* except IndexError: print usage; sys.exit(1)
Usage ==
    /\ pc = "main"
    /\ Len(env.argv) < 3
    /\ ExitWith(1)
    /\ UNCHANGED <<env, pos, faults, num_features, n_features, backoff, feat,
                   schema, attrs, g_attrs, gi, stdout, progress, summary,
                   n_warn, listed, term, calls, runFails, slept, retried, captures,
                   n_yield, curLines, curWarns>>

\* assert wfs_ds: an uncaught AssertionError ends the process with status 1
OpenFail ==
    /\ pc = "main"
    /\ Len(env.argv) >= 3
    /\ ~env.ds_ok
    /\ ExitWith(1)
    /\ UNCHANGED <<env, pos, faults, num_features, n_features, backoff, feat,
                   schema, attrs, g_attrs, gi, stdout, progress, summary,
                   n_warn, listed, term, calls, runFails, slept, retried, captures,
                   n_yield, curLines, curWarns>>

\* a bug: for i in range(1, num_layers)
ListLayers_SkipsFirst ==
    /\ pc = "main"
    /\ Len(env.argv) >= 3
    /\ env.ds_ok
    /\ layer_name = ""
    /\ listed' = [i \in 1..(Len(env.layers) - 1) |-> <<i, env.layers[i + 1]>>]
    /\ ExitWith(0)
    /\ UNCHANGED <<env, pos, faults, num_features, n_features, backoff, feat,
                   schema, attrs, g_attrs, gi, stdout, progress, summary,
                   n_warn, term, calls, runFails, slept, retried, captures,
                   n_yield, curLines, curWarns>>

\* if not layer_name: print the layer list; sys.exit(0)
ListLayers ==
    /\ pc = "main"
    /\ Len(env.argv) >= 3
    /\ env.ds_ok
    /\ layer_name = ""
    /\ listed' = [i \in 1..Len(env.layers) |-> <<i - 1, env.layers[i]>>]
    /\ ExitWith(0)
    /\ UNCHANGED <<env, pos, faults, num_features, n_features, backoff, feat,
                   schema, attrs, g_attrs, gi, stdout, progress, summary,
                   n_warn, term, calls, runFails, slept, retried, captures,
                   n_yield, curLines, curWarns>>

\* a bug: a layer that is not there is read as an empty one
LayerMissing_ReadAsEmpty ==
    /\ pc = "main"
    /\ Len(env.argv) >= 3
    /\ env.ds_ok
    /\ layer_name # ""
    /\ ~LayerFound
    /\ pc' = "fetch"
    /\ UNCHANGED <<env, pos, faults, num_features, n_features, backoff, feat,
                   schema, attrs, g_attrs, gi, stdout, progress, summary,
                   n_warn, listed, exit_status, term, calls, runFails, slept,
                   retried, captures, n_yield, curLines, curWarns>>

\* get_features, lines 43-44: GetLayerByName returns None and
\* layer.GetDescription() raises AttributeError, which nothing catches
LayerMissing ==
    /\ pc = "main"
    /\ Len(env.argv) >= 3
    /\ env.ds_ok
    /\ layer_name # ""
    /\ ~LayerFound
    /\ ExitWith(1)
    /\ UNCHANGED <<env, pos, faults, num_features, n_features, backoff, feat,
                   schema, attrs, g_attrs, gi, stdout, progress, summary,
                   n_warn, listed, term, calls, runFails, slept, retried, captures,
                   n_yield, curLines, curWarns>>

\* get_features, lines 43-69: up to the loop
Begin ==
    /\ pc = "main"
    /\ Len(env.argv) >= 3
    /\ env.ds_ok
    /\ layer_name # ""
    /\ LayerFound
    /\ num_features' = IF server_attribute_filter # ""
                         THEN ArbitraryCount
                         ELSE env.layer.total
    /\ n_features' = 0
    /\ backoff' = 0
    /\ pc' = "fetch"
    /\ UNCHANGED <<env, pos, faults, feat, schema, attrs, g_attrs, gi, stdout,
                   progress, summary, n_warn, listed, exit_status, term, calls,
                   runFails, slept, retried, captures, n_yield, curLines, curWarns>>

---------------------------------------------------------------------------
(* Python helpers *)

\* a bug: 2*backoff
Pow2_Times(n) == 2 * n

\* 2**backoff
RECURSIVE Pow2(_)
Pow2(n) == IF n <= 0 THEN 1 ELSE 2 * Pow2(n - 1)

\* {k: vals[i] for i, k in enumerate(keys)}: a dict keeps one item per key, at
\* the place of the key's first occurrence, with the value of its last occurrence
DictComp(keys, vals) ==
    LET first == SelectSeq([i \in 1..Len(keys) |-> i],
                           LAMBDA i : \A j \in 1..(i - 1) : keys[j] # keys[i])
        last(k) == CHOOSE i \in 1..Len(keys) :
                       /\ keys[i] = k
                       /\ \A j \in (i + 1)..Len(keys) : keys[j] # k
    IN [n \in 1..Len(first) |->
           [key |-> keys[first[n]], val |-> vals[last(keys[first[n]])]]]

\* round(100*n/num, 1), in tenths of a percent (ties to even)
Percent(n, num) ==
    LET q == (1000 * n) \div num
        r == (1000 * n) % num
    IN IF 2 * r > num \/ (2 * r = num /\ q % 2 = 1) THEN q + 1 ELSE q

\* shapely.geometry.mapping(shapely.wkb.loads(geom.GetLinearGeometry().ExportToWkb()))
Mapping(geom) == [type |-> "Geometry", coordinates |-> <<geom.fid, geom.field>>]

\* json.dump(geo_dict, sys.stdout, ...)
JsonToken(geo_dict) == [kind |-> "json", doc |-> geo_dict]
\* print()
Newline == [kind |-> "newline"]

---------------------------------------------------------------------------
(* get_features: the loop, lines 70-127 *)

\* a bug: the success branch does not reset the backoff level
AdvanceOk_NoReset ==
    /\ pc = "fetch"
    /\ pos < env.layer.total
    /\ feat' = FeatureAt(pos + 1)
    /\ pos' = pos + 1
    /\ pc' = "check"
    /\ calls' = calls + 1
    /\ runFails' = 0
    /\ retried' = slept
    /\ slept' = <<>>
    /\ UNCHANGED <<env, faults, num_features, n_features, backoff, schema,
                   attrs, g_attrs, gi, stdout, progress, summary, n_warn,
                   listed, exit_status, term, captures, n_yield, curLines,
                   curWarns>>

\* line 72: GetNextFeature() returns the next feature; line 78: backoff=0
AdvanceOk ==
    /\ pc = "fetch"
    /\ pos < env.layer.total
    /\ feat' = FeatureAt(pos + 1)
    /\ pos' = pos + 1
    /\ backoff' = 0
    /\ pc' = "check"
    /\ calls' = calls + 1
    /\ runFails' = 0
    /\ retried' = slept
    /\ slept' = <<>>
    /\ UNCHANGED <<env, faults, num_features, n_features, schema, attrs,
                   g_attrs, gi, stdout, progress, summary, n_warn, listed,
                   exit_status, term, captures, n_yield, curLines, curWarns>>

\* a bug: a None is not raised as 'Out of data?' and reaches line 92
AdvanceNull_NoRaise ==
    /\ pc = "fetch"
    /\ pos = env.layer.total \/ faults > 0
    /\ runFails < MaxRunFails
    /\ feat' = None
    /\ faults' = IF pos < env.layer.total THEN faults - 1 ELSE faults
    /\ pc' = "check"
    /\ calls' = calls + 1
    /\ UNCHANGED <<env, pos, num_features, n_features, backoff, schema, attrs,
                   g_attrs, gi, stdout, progress, summary, n_warn, listed,
                   exit_status, term, runFails, slept, retried, captures,
                   n_yield, curLines, curWarns>>

\* lines 72-75: GetNextFeature() returns None, at the end of the data or because
\* the server dropped a response; the loop raises 'Out of data?'
AdvanceNull ==
    /\ pc = "fetch"
    /\ pos = env.layer.total \/ faults > 0
    /\ runFails < MaxRunFails
    /\ feat' = None
    /\ faults' = IF pos < env.layer.total THEN faults - 1 ELSE faults
    /\ pc' = "except"
    /\ calls' = calls + 1
    /\ runFails' = runFails + 1
    /\ UNCHANGED <<env, pos, num_features, n_features, backoff, schema, attrs,
                   g_attrs, gi, stdout, progress, summary, n_warn, listed,
                   exit_status, term, slept, retried, captures, n_yield,
                   curLines, curWarns>>

\* line 72: GetNextFeature() raises
AdvanceRaise ==
    /\ pc = "fetch"
    /\ faults > 0
    /\ runFails < MaxRunFails
    /\ faults' = faults - 1
    /\ pc' = "except"
    /\ calls' = calls + 1
    /\ runFails' = runFails + 1
    /\ UNCHANGED <<env, pos, num_features, n_features, backoff, feat, schema,
                   attrs, g_attrs, gi, stdout, progress, summary, n_warn,
                   listed, exit_status, term, slept, retried, captures,
                   n_yield, curLines, curWarns>>

\* a bug: the test lets one more retry through
BudgetExceeded_OffByOne == backoff > MaxBackoff

\* a bug: the retries are not capped
BudgetExceeded_Never == FALSE

\* a bug: the loop gives up one failure early
BudgetExceeded_Early == backoff >= MaxBackoff - 1

\* line 82: if backoff >= 3
BudgetExceeded == backoff >= MaxBackoff

\* a bug: the exception is raised again instead of leaving the loop
GiveUp_Reraise ==
    /\ term' = "ABORTED"
    /\ ExitWith(1)
    /\ UNCHANGED <<backoff, slept, pos>>

\* lines 83-84: 'Maximum retries exceeded'; break
GiveUp ==
    /\ term' = "ABORTED"
    /\ pc' = "finish"
    /\ UNCHANGED <<backoff, slept, exit_status, pos>>

\* a bug: backoff += 2
Retry_SkipsLevel ==
    /\ slept' = Append(slept, Pow2(backoff))
    /\ backoff' = backoff + 2
    /\ pc' = "fetch"
    /\ UNCHANGED <<term, exit_status, pos>>

\* a bug: layer.ResetReading() before trying again
Retry_ResetReading ==
    /\ slept' = Append(slept, Pow2(backoff))
    /\ backoff' = backoff + 1
    /\ pc' = "fetch"
    /\ pos' = 0
    /\ UNCHANGED <<term, exit_status>>

\* lines 86-89: 'Trying again'; time.sleep(2**backoff); backoff += 1; continue
\* (nothing touches the layer's cursor)
Retry ==
    /\ slept' = Append(slept, Pow2(backoff))
    /\ backoff' = backoff + 1
    /\ pc' = "fetch"
    /\ UNCHANGED <<term, exit_status, pos>>

\* lines 80-89: the except block
HandleFailure ==
    /\ pc = "except"
    /\ IF BudgetExceeded THEN GiveUp ELSE Retry
    /\ UNCHANGED <<env, faults, num_features, n_features, feat, schema,
                   attrs, g_attrs, gi, stdout, progress, summary, n_warn,
                   listed, calls, runFails, retried, captures, n_yield,
                   curLines, curWarns>>

\* a bug: the schema is read again from every feature
FirstFeature_Every == TRUE

\* line 96: if n_features == 0
FirstFeature == n_features = 0

\* lines 92-111: the 'last feature' test, the schema capture of the first
\* feature, the extraction of the values, and the yield.  Reading names or
\* gnames before they are assigned raises NameError, which nothing catches.
Yield ==
    /\ pc = "check"
    /\ LET cached == IF FirstFeature
                       THEN [names |-> FieldNames, gnames |-> env.layer.gdefn]
                       ELSE schema
       IN IF feat = None
            THEN /\ term' = "EXHAUSTED"
                 /\ pc' = "finish"
                 /\ UNCHANGED <<schema, captures, attrs, g_attrs, n_yield, gi,
                                curLines, curWarns, exit_status>>
            ELSE IF cached = Unbound
                   THEN /\ ExitWith(1)
                        /\ UNCHANGED <<schema, captures, attrs, g_attrs,
                                       n_yield, gi, curLines, curWarns, term>>
                   ELSE /\ schema' = cached
                        /\ captures' = IF FirstFeature
                                         THEN Append(captures, feat.fid)
                                         ELSE captures
                        /\ attrs' = DictComp(cached.names, feat.fields)
                        /\ g_attrs' = DictComp(cached.gnames, feat.geoms)
                        /\ n_yield' = n_yield + 1
                        /\ gi' = 1
                        /\ curLines' = 0
                        /\ curWarns' = 0
                        /\ pc' = "yielded"
                        /\ UNCHANGED <<term, exit_status>>
    /\ UNCHANGED <<env, pos, faults, num_features, n_features, backoff, feat,
                   stdout, progress, summary, n_warn, listed, calls, runFails,
                   slept, retried>>

\* a bug: break instead of continue, the feature's other fields are dropped
SkipGeom_Break ==
    /\ pc = "yielded"
    /\ gi <= Len(g_attrs)
    /\ g_attrs[gi].val = None
    /\ n_warn' = n_warn + 1
    /\ curWarns' = curWarns + 1
    /\ gi' = Len(g_attrs) + 1
    /\ UNCHANGED <<env, pc, pos, faults, num_features, n_features, backoff,
                   feat, schema, attrs, g_attrs, stdout, progress, summary,
                   listed, exit_status, term, calls, runFails, slept, retried,
                   captures, n_yield, curLines>>

\* print_features_geojson, lines 137-139: the geometry is None
SkipGeom ==
    /\ pc = "yielded"
    /\ gi <= Len(g_attrs)
    /\ g_attrs[gi].val = None
    /\ n_warn' = n_warn + 1
    /\ curWarns' = curWarns + 1
    /\ gi' = gi + 1
    /\ UNCHANGED <<env, pc, pos, faults, num_features, n_features, backoff,
                   feat, schema, attrs, g_attrs, stdout, progress, summary,
                   listed, exit_status, term, calls, runFails, slept, retried,
                   captures, n_yield, curLines>>

\* print_features_geojson, lines 140-146: one NDJSON line
WriteGeom ==
    /\ pc = "yielded"
    /\ gi <= Len(g_attrs)
    /\ g_attrs[gi].val # None
    /\ LET geo_dict == [geometry |-> Mapping(g_attrs[gi].val),
                        properties |-> attrs]
       IN stdout' = stdout \o <<JsonToken(geo_dict), Newline>>
    /\ curLines' = curLines + 1
    /\ gi' = gi + 1
    /\ UNCHANGED <<env, pc, pos, faults, num_features, n_features, backoff,
                   feat, schema, attrs, g_attrs, progress, summary, n_warn,
                   listed, exit_status, term, calls, runFails, slept, retried,
                   captures, n_yield, curWarns>>

\* a bug: the features are counted from 0
ProgressDue_ZeroBased(n) == (n - 1) % ProgressEvery = 0

\* line 114: if n_features % 10_000 == 0
ProgressDue(n) == n % ProgressEvery = 0

\* a bug: only the features that wrote a line are counted
Counted_Written == n_features + (IF curLines > 0 THEN 1 ELSE 0)

\* line 113: n_features += 1
Counted == n_features + 1

\* a bug: the consumer asks for the next feature before the last field
Consumed_Early == gi >= Len(g_attrs)

\* line 132: the for loop over geom_attributes has run out, and the async for
\* of line 131 asks the generator for the next feature
Consumed == gi > Len(g_attrs)

\* a bug: the loop refuses to count past the estimate
Report_AssertsBelowEstimate(n, num) == [raised |-> n >= num, lines |-> <<>>]

\* lines 114-124, the progress report for a count n and an estimate num: the
\* lines it prints, or the ZeroDivisionError that 100*n_features/num_features
\* raises when num_features is 0, which nothing catches
Report(n, num) ==
    IF ~ProgressDue(n)
      THEN [raised |-> FALSE, lines |-> <<>>]
      ELSE IF num = 0
             THEN [raised |-> TRUE, lines |-> <<>>]
             ELSE [raised |-> FALSE,
                   lines |-> <<[count |-> n, percent |-> Percent(n, num)]>>]

\* the consumer asks for the next feature and the generator resumes after the
\* yield, lines 113-124
Resume ==
    /\ pc = "yielded"
    /\ Consumed
    /\ n_features' = Counted
    /\ LET report == Report(n_features', num_features)
       IN IF report.raised
            THEN /\ ExitWith(1)
                 /\ UNCHANGED progress
            ELSE /\ progress' = progress \o report.lines
                 /\ pc' = "fetch"
                 /\ UNCHANGED exit_status
    /\ UNCHANGED <<env, pos, faults, num_features, backoff, feat, schema,
                   attrs, g_attrs, gi, stdout, summary, n_warn, listed, term,
                   calls, runFails, slept, retried, captures, n_yield,
                   curLines, curWarns>>

\* lines 126-127, after the loop: the generator ends
Finish ==
    /\ pc = "finish"
    /\ summary' = Append(summary, n_features)
    /\ pc' = "closed"
    /\ UNCHANGED <<env, pos, faults, num_features, n_features, backoff, feat,
                   schema, attrs, g_attrs, gi, stdout, progress, n_warn,
                   listed, exit_status, term, calls, runFails, slept, retried,
                   captures, n_yield, curLines, curWarns>>

\* a bug, or another program: the status tells how the loop was left
Exit_StatusByTerm ==
    /\ pc = "closed"
    /\ ExitWith(IF term = "ABORTED" THEN 1 ELSE 0)
    /\ UNCHANGED <<env, pos, faults, num_features, n_features, backoff, feat,
                   schema, attrs, g_attrs, gi, stdout, progress, summary,
                   n_warn, listed, term, calls, runFails, slept, retried,
                   captures, n_yield, curLines, curWarns>>

\* lines 131 and 162-167: the async for ends, asyncio.run() returns and the
\* module ends
Exit ==
    /\ pc = "closed"
    /\ ExitWith(0)
    /\ UNCHANGED <<env, pos, faults, num_features, n_features, backoff, feat,
                   schema, attrs, g_attrs, gi, stdout, progress, summary,
                   n_warn, listed, term, calls, runFails, slept, retried,
                   captures, n_yield, curLines, curWarns>>

---------------------------------------------------------------------------
(* Specifications *)

Init == InitOver(OtherEnvs \cup StreamEnvs(SmallLayers, 0..MaxFaults))

InitLong == InitOver(OtherEnvs \cup StreamEnvs(LongLayers, 0..1))

Next ==
    \/ Usage
    \/ OpenFail
    \/ ListLayers
    \/ LayerMissing
    \/ Begin
    \/ AdvanceOk
    \/ AdvanceNull
    \/ AdvanceRaise
    \/ HandleFailure
    \/ Yield
    \/ SkipGeom
    \/ WriteGeom
    \/ Resume
    \/ Finish
    \/ Exit

Spec == Init /\ [][Next]_vars

\* the program is one thread that always takes its next step
FairSpec == Spec /\ WF_vars(Next)

\* the scan of a layer of LongFeatures features
SpecLong == InitLong /\ [][Next]_vars

\* the state of the iterator, in the terms of the state machine
IterState ==
    CASE pc \in {"fetch", "check", "yielded"} -> "FETCHING"
      [] pc = "except" -> "BACKOFF_WAIT"
      [] pc \in {"finish", "closed"} -> term
      [] pc = "exited" -> term
      [] OTHER -> "none"

TypeOK ==
    /\ pc \in {"main", "fetch", "except", "check", "yielded", "finish",
               "closed", "exited"}
    /\ backoff \in 0..MaxBackoff
    /\ n_features \in Nat
    /\ pos \in 0..env.layer.total
    /\ faults \in 0..env.faults
    /\ exit_status \in {Running, 0, 1}
    /\ term \in {"none", "ABORTED", "EXHAUSTED"}

\* the cursor is never refused a call: the program gives up first
CapNeverBinds == runFails < MaxRunFails

---------------------------------------------------------------------------
(* What the layer holds, independently of the program *)

Min(a, b) == IF a < b THEN a ELSE b

IsPrefix(s, t) == Len(s) <= Len(t) /\ SubSeq(t, 1, Len(s)) = s

\* the sleeps of a run of failures that exhausts the retry budget
FullBackoff == <<1, 2, 4>>

\* the geometry fields of feature i that hold a geometry, and those that do not
GeomsOf(i) == {j \in 1..Len(env.layer.gdefn) : FeatureAt(i).geoms[j] # None}
NullsOf(i) == {j \in 1..Len(env.layer.gdefn) : FeatureAt(i).geoms[j] = None}

RECURSIVE NullsUpTo(_)
NullsUpTo(n) == IF n = 0 THEN 0 ELSE NullsUpTo(n - 1) + Cardinality(NullsOf(n))

\* the properties every line of feature i carries
PropertiesOf(i) == << [key |-> "id", val |-> i] >>

\* the lines of stdout that come from feature i
LinesFor(i) ==
    {k \in 1..Len(stdout) :
        /\ stdout[k].kind = "json"
        /\ stdout[k].doc.properties = PropertiesOf(i)}

\* the cursor has returned None with no feature left: the end of the data
EndSeen == feat = None /\ pos = env.layer.total

\* the loop has been left
Terminal == pc \in {"finish", "closed", "exited"} /\ term # "none"

---------------------------------------------------------------------------
(* C1 *)

\* C1 (backoff bound): a run of failed advances starts at level 0; after N < 4
\* failures the iterator has slept N times, 1, 2, 4 in that order, and retried
\* N times; the 4th failure in a row ends the loop (ABORTED) after exactly 4
\* attempts and 3 sleeps, with no sleep after the 4th failure.
C1_BackoffBound ==
    /\ runFails \in 0..4
    /\ pc = "except" => slept = SubSeq(FullBackoff, 1, runFails - 1)
    /\ pc # "except" => slept = SubSeq(FullBackoff, 1, Min(runFails, 3))
    /\ pc = "fetch" => Len(slept) = runFails /\ runFails < 4
    /\ term = "ABORTED" => runFails = 4 /\ slept = FullBackoff

\* a run the server's failures end before the layer's data does
C1_Witness ==
    /\ term = "ABORTED"
    /\ pos < env.layer.total
    /\ runFails = 4
    /\ slept = <<1, 2, 4>>

---------------------------------------------------------------------------
(* C2 *)

\* C2 (backoff reset): a successful advance leaves the backoff level at 0
\* whatever failures preceded it (their sleeps were 1, 2, 4 in order, at most
\* 3), and the level always equals the number of sleeps since the last
\* success, so the first failure after a success sleeps 1 unit and a new run
\* follows 1, 2, 4 from the start.
C2_BackoffReset ==
    /\ pc \in {"check", "yielded"} =>
          /\ backoff = 0
          /\ Len(retried) <= 3
          /\ retried = SubSeq(FullBackoff, 1, Len(retried))
    /\ backoff = Len(slept)
    /\ (pc = "fetch" /\ runFails = 1) => slept = <<1>>

\* a feature fetched at the third attempt, and the first failure after it
C2_Witness ==
    /\ pc = "fetch"
    /\ n_yield >= 1
    /\ retried = <<1, 2>>
    /\ runFails = 1
    /\ slept = <<1>>

---------------------------------------------------------------------------
(* C3 *)

\* C3 as the specification states it: once the cursor has reported the end of
\* the data the iterator does not sleep, does not raise the backoff level,
\* does not call the cursor again, and ends EXHAUSTED.
C3_Original ==
    [][EndSeen => /\ slept' = slept
                  /\ backoff' = backoff
                  /\ calls' = calls
                  /\ term' \in {term, "EXHAUSTED"}]_vars

\* C3 (amended): the end of the data reaches the loop as a None like any
\* other: it is handled as a read failure.  The iterator then only waits and
\* retries (the level equals the sleeps taken), and leaves the loop as
\* ABORTED after 4 failed advances in a row and the sleeps 1, 2, 4; it is
\* never EXHAUSTED.
C3_EndOfDataBacksOff ==
    /\ term # "EXHAUSTED"
    /\ EndSeen =>
          /\ pc \in {"except", "fetch", "finish", "closed", "exited"}
          /\ runFails >= 1
          /\ pc = "fetch" => backoff >= 1 /\ Len(slept) = backoff
          /\ pc \in {"finish", "closed", "exited"} =>
                /\ term = "ABORTED"
                /\ runFails = 4
                /\ slept = FullBackoff

\* a run without any transient failure, ended by the end of the data alone
C3_Witness ==
    /\ EndSeen
    /\ env.faults = 0
    /\ n_yield >= 1
    /\ pc = "exited"
    /\ term = "ABORTED"
    /\ calls = env.layer.total + 4

---------------------------------------------------------------------------
(* C4 *)

---------------------------------------------------------------------------
(* C5 *)

\* C5 (termination): once the loop is entered, over a layer of finitely many
\* features and with finitely many transient failures, the iterator
\* eventually leaves the loop (ABORTED or EXHAUSTED) and the stream ends.
C5_Termination ==
    (pc = "fetch") ~> (pc = "closed" /\ term \in {"ABORTED", "EXHAUSTED"})

\* the stream ended after every feature was yielded and failures were retried
C5_Witness ==
    /\ pc = "closed"
    /\ term \in {"ABORTED", "EXHAUSTED"}
    /\ n_yield = env.layer.total
    /\ n_yield >= 2
    /\ env.faults - faults >= 2

---------------------------------------------------------------------------
(* C6 *)

\* C6 (missing geometry): every feature writes one line per geometry field
\* that holds a geometry and one warning per field that holds none, whatever
\* the features before it held: the lines of stdout that come from feature i
\* are as many as its geometries, and the warnings add up to the null fields
\* of the features consumed.
C6_MissingGeometry ==
    /\ \A i \in 1..n_features : Cardinality(LinesFor(i)) = Cardinality(GeomsOf(i))
    /\ n_warn = NullsUpTo(n_features) + (IF pc = "yielded" THEN curWarns ELSE 0)
    /\ (pc = "yielded" /\ gi > Len(g_attrs)) =>
          /\ curLines = Cardinality(GeomsOf(feat.fid))
          /\ curWarns = Cardinality(NullsOf(feat.fid))
          /\ Cardinality(LinesFor(feat.fid)) = curLines

\* a feature whose only geometry field is null, then one that has a geometry
C6_Witness ==
    /\ Len(env.layer.gdefn) = 1
    /\ n_features = 2
    /\ GeomsOf(1) = {}
    /\ LinesFor(1) = {}
    /\ n_warn = 1
    /\ Cardinality(LinesFor(2)) = 1

---------------------------------------------------------------------------
(* C7 *)

\* C7 (progress cadence): the progress lines written so far are exactly those
\* of the counts 10000, 20000, ... up to the number of features seen, in that
\* order: floor(n_features / 10000) lines, whatever was retried or skipped.
C7_ProgressCadence ==
    /\ Len(progress) = n_features \div 10000
    /\ \A k \in 1..Len(progress) : progress[k].count = k * 10000

\* 25,000 features seen, with a retry and null geometries on the way
C7_Witness ==
    /\ n_features = 25000
    /\ Len(progress) = 2
    /\ progress[1].count = 10000
    /\ progress[2].count = 20000
    /\ env.faults - faults >= 1
    /\ n_warn > 0

---------------------------------------------------------------------------
(* C8 *)

\* C8 (terminal states): once the loop is left the cursor is not advanced, no
\* feature is yielded and nothing sleeps any more, and the loop is never
\* entered again; exactly one summary line is written, on leaving, and its
\* count is the number of features yielded, which is the number of successful
\* advances.
C8_TerminalStates ==
    /\ [][Terminal => /\ Terminal'
                      /\ calls' = calls
                      /\ pos' = pos
                      /\ n_yield' = n_yield
                      /\ slept' = slept]_vars
    /\ []((Terminal /\ pc # "finish") => summary = <<n_yield>> /\ n_yield = pos)
    /\ [](~(Terminal /\ pc # "finish") => summary = <<>>)

\* a summary that counts a feature that wrote no line
C8_Witness ==
    /\ pc = "exited"
    /\ Terminal
    /\ summary = <<2>>
    /\ n_yield = 2
    /\ \E i \in 1..2 : LinesFor(i) = {}
    /\ \E i \in 1..2 : LinesFor(i) # {}

---------------------------------------------------------------------------
(* C9 *)

\* C9 (schema capture): the schema is captured once, from the first feature
\* the cursor returns, in the step that first extracts values; from then on
\* it is the layer's field names and is not captured again, and the values of
\* every feature are keyed by it.  No value is extracted while it is unbound
\* (that would end the process with a NameError).
C9_SchemaCapture ==
    /\ captures = IF n_yield >= 1 THEN <<1>> ELSE <<>>
    /\ schema = IF n_yield >= 1
                  THEN [names |-> FieldNames, gnames |-> env.layer.gdefn]
                  ELSE Unbound
    /\ pc = "yielded" =>
          /\ [i \in 1..Len(attrs) |-> attrs[i].key] = schema.names
          /\ [i \in 1..Len(g_attrs) |-> g_attrs[i].key] = schema.gnames
    /\ (pc = "exited" /\ calls > 0) => exit_status = 0

\* the second feature, fetched after a retry, under the schema of the first
C9_Witness ==
    /\ pc = "yielded"
    /\ n_yield = 2
    /\ feat.fid = 2
    /\ retried # <<>>
    /\ captures = <<1>>

---------------------------------------------------------------------------
(* C10 *)

\* the lines of the features 1..n, complete, in order
RECURSIVE LinesOfField(_, _)
LinesOfField(i, j) ==
    IF j = 0 THEN <<>>
    ELSE LinesOfField(i, j - 1) \o
         (IF j \in GeomsOf(i)
            THEN <<[kind |-> "json",
                    doc |-> [geometry |-> [type |-> "Geometry",
                                           coordinates |-> <<i, j>>],
                             properties |-> PropertiesOf(i)]],
                   [kind |-> "newline"]>>
            ELSE <<>>)

RECURSIVE LinesUpTo(_)
LinesUpTo(n) ==
    IF n = 0 THEN <<>>
    ELSE LinesUpTo(n - 1) \o LinesOfField(n, Len(env.layer.gdefn))

\* C10 (controlled abort): when the retry budget is exceeded the generator
\* ends and the process goes on to a normal exit (no exception ends it), and
\* stdout holds exactly the complete lines of the features yielded before;
\* stdout only ever grows, and leaving the loop writes nothing to it.
C10_ControlledAbort ==
    /\ [](term = "ABORTED" =>
            /\ pc \in {"finish", "closed", "exited"}
            /\ exit_status \in {Running, 0}
            /\ n_features = n_yield
            /\ stdout = LinesUpTo(n_yield))
    /\ [][IsPrefix(stdout, stdout')]_vars
    /\ [][(pc \in {"except", "finish", "closed"}) => stdout' = stdout]_vars

\* an abort in the middle of the data, after lines were written
C10_Witness ==
    /\ term = "ABORTED"
    /\ pc = "closed"
    /\ pos < env.layer.total
    /\ n_yield >= 1
    /\ Len(stdout) >= 2

---------------------------------------------------------------------------
(* C11 *)

\* C11 (retry budget): a failed fetch stops the iteration only when the retry
\* budget is used up: the loop is left for ABORTED only from the except block
\* at backoff level 3, after 4 failed calls in a row of which 3 were followed
\* by a sleep and a retry; below level 3 the except block goes back to
\* fetching.  A feature fetched after up to 3 failures in a row finds the
\* loop running and is the next feature yielded.
C11_RetryBudget ==
    /\ [][(term = "none" /\ term' # "none") =>
             /\ term' = "ABORTED"
             /\ pc = "except"
             /\ backoff = 3
             /\ runFails = 4
             /\ Len(slept) = 3]_vars
    /\ [][(pc = "except" /\ backoff < 3) => (pc' = "fetch" /\ term' = "none")]_vars
    /\ [](pc \in {"check", "yielded"} => term = "none" /\ Len(retried) <= 3)
    /\ [][pc = "check" =>
             /\ pc' = "yielded"
             /\ feat' = feat
             /\ n_yield' = n_yield + 1
             /\ attrs' = PropertiesOf(feat.fid)]_vars

\* a feature yielded after three failed fetches in a row
C11_Witness ==
    /\ pc = "yielded"
    /\ retried = <<1, 2, 4>>
    /\ n_yield = feat.fid
    /\ term = "none"

---------------------------------------------------------------------------
(* C12 *)

\* the estimates a run can work with: the layer's count, or the arbitrary
\* number taken when a filter is set
Estimates == {env.layer.total, ArbitraryCount}

\* C12 (the estimate is only shown): the estimate is set once, before the loop,
\* and the one step that reads it, the resumption after a yield, does the same
\* under either estimate: the run started with the other estimate takes the
\* same step from the same state, with the same count, the same next position
\* in the program, the same exit status, as many progress lines with the same
\* counts (only their percentages are free to differ), and no call of the
\* cursor, sleep, yield, output line or change of the way the loop ended.
C12_EstimateOnlyShown ==
    /\ [][num_features' # num_features =>
             pc = "main" /\ num_features' \in Estimates]_vars
    /\ [][progress' # progress => pc = "yielded" /\ gi > Len(g_attrs)]_vars
    /\ [][(pc = "yielded" /\ gi > Len(g_attrs)) =>
             \A e \in Estimates :
                LET twin == Report(Counted, e)
                IN /\ n_features' = Counted
                   /\ (pc' = "exited") = twin.raised
                   /\ (pc' = "fetch") = ~twin.raised
                   /\ (exit_status' = 1) = twin.raised
                   /\ Len(progress') = Len(progress) + Len(twin.lines)
                   /\ \A k \in 1..Len(twin.lines) :
                         progress'[Len(progress) + k].count = twin.lines[k].count
                   /\ \A k \in 1..Len(progress) : progress'[k] = progress[k]
                   /\ UNCHANGED <<pos, faults, calls, runFails, slept, retried,
                                  backoff, n_yield, stdout, n_warn, schema,
                                  summary, term>>]_vars

\* a filtered run that ended after two progress lines whose percentages are not
\* those of the unfiltered run over the same layer
C12_Witness ==
    /\ pc = "exited"
    /\ exit_status = 0
    /\ num_features = ArbitraryCount
    /\ env.layer.total # ArbitraryCount
    /\ Len(progress) = 2
    /\ progress[2].count = 2 * ProgressEvery
    /\ progress[2].percent # Percent(2 * ProgressEvery, env.layer.total)

---------------------------------------------------------------------------
(* C13 *)

\* the run was asked for the list of layers of a service that opens
ListingRun == Len(env.argv) >= 3 /\ env.ds_ok /\ layer_name = ""

\* C13 (layer listing): with an empty layer name and a service of k layers the
\* run never calls a cursor, never sleeps, yields and writes no feature, and
\* ends with status 0 having printed exactly k entries, entry number i
\* (from 0) naming the service's layer at index i.
C13_LayerListing ==
    ListingRun =>
        /\ pc \in {"main", "exited"}
        /\ calls = 0
        /\ slept = <<>>
        /\ n_yield = 0
        /\ stdout = <<>>
        /\ pc = "main" => listed = <<>>
        /\ pc = "exited" =>
              /\ exit_status = 0
              /\ Len(listed) = Len(env.layers)
              /\ \A k \in 1..Len(listed) :
                    /\ listed[k][1] = k - 1
                    /\ listed[k][2] = env.layers[k]

\* the listing of a service of two layers
C13_Witness ==
    /\ ListingRun
    /\ pc = "exited"
    /\ Len(env.layers) = 2
    /\ listed = <<<<0, "A">>, <<1, "B">>>>

---------------------------------------------------------------------------
(* C14 *)

\* the service does not open, or it has no layer of the name asked for
FatalStart ==
    /\ Len(env.argv) >= 3
    /\ \/ ~env.ds_ok
       \/ env.ds_ok /\ layer_name # "" /\ ~LayerFound

\* C14 (fatal start-up failures): when the service does not open or the
\* layer asked for is not there, the run goes from its start straight to its
\* end with a status other than 0; the loop is never entered, so the cursor is
\* never called, nothing is slept, and nothing is yielded, written or listed.
C14_FatalStart ==
    FatalStart =>
        /\ pc \in {"main", "exited"}
        /\ pc = "exited" => exit_status # 0 /\ exit_status # Running
        /\ calls = 0
        /\ backoff = 0
        /\ slept = <<>>
        /\ n_yield = 0
        /\ stdout = <<>>
        /\ listed = <<>>
        /\ summary = <<>>
        /\ term = "none"

\* the end of a run that asked an open service for a layer it does not have
C14_Witness ==
    /\ env.ds_ok
    /\ Len(env.argv) >= 3
    /\ layer_name = "Z"
    /\ Len(env.layers) > 0
    /\ ~LayerFound
    /\ pc = "exited"
    /\ exit_status = 1

---------------------------------------------------------------------------
(* C15 *)

\* the features yielded and not yet counted as done by the generator
InFlight == n_yield - n_features

\* C15 (pull chain): the cursor is called, and a sleep starts, only when no
\* feature is in flight and every line and warning of the features yielded so
\* far has been written; at most one feature is in flight, exactly while the
\* consumer holds it, and the cursor is never more than that one feature
\* ahead of the consumer; calls of the cursor come one at a time, and while a
\* feature is in flight its fields are handled one by one.
C15_PullChain ==
    /\ [](InFlight \in {0, 1})
    /\ [](InFlight = 1 <=> pc = "yielded")
    /\ [](pc \in {"main", "fetch", "except", "check", "yielded"} =>
            pos - n_features \in {0, 1})
    /\ [](pc = "yielded" => curLines + curWarns = gi - 1 /\ gi - 1 <= Len(g_attrs))
    /\ [][calls' \in {calls, calls + 1}]_vars
    /\ [][(calls' # calls \/ Len(slept') > Len(slept)) =>
             /\ pc \in {"fetch", "except"}
             /\ InFlight = 0
             /\ stdout = LinesUpTo(n_yield)
             /\ n_warn = NullsUpTo(n_yield)]_vars
    /\ [][pc = "yielded" =>
             /\ calls' = calls /\ slept' = slept /\ pos' = pos
             /\ pc' # "yielded" => curLines + curWarns = Len(g_attrs)]_vars

\* the second call of the cursor, made after the first feature's line and
\* warning were written
C15_Witness ==
    /\ pc = "check"
    /\ calls = 2
    /\ pos = 2
    /\ n_features = 1
    /\ n_warn = 1
    /\ Len(stdout) = 2

---------------------------------------------------------------------------
(* C16 *)

\* the feature ids of the lines of stdout, in the order of the lines
RECURSIVE FidsOf(_)
FidsOf(out) ==
    IF out = <<>> THEN <<>>
    ELSE (IF Head(out).kind = "json"
            THEN <<Head(out).doc.properties[1].val>> ELSE <<>>) \o FidsOf(Tail(out))

\* C16 (no loss, duplication or reordering): the cursor hands out its features
\* in order, one per successful call; the k-th feature it hands out is the
\* k-th feature yielded, with its own values, so the features yielded are
\* exactly the features returned, each once; a failed call and the handling
\* of the failure move neither the cursor nor the count of yields and write
\* nothing; the lines of stdout are a prefix of the lines of the features
\* returned, taken in the order of the features.
C16_ExactlyOnceInOrder ==
    /\ [][pos' # pos =>
             /\ pos' = pos + 1
             /\ feat' = FeatureAt(pos')
             /\ pc' = "check"]_vars
    /\ [][n_yield' # n_yield =>
             /\ n_yield' = n_yield + 1
             /\ n_yield' = pos
             /\ feat = FeatureAt(n_yield')
             /\ attrs' = PropertiesOf(n_yield')
             /\ \A j \in 1..Len(g_attrs') :
                   g_attrs'[j].val = FeatureAt(n_yield').geoms[j]]_vars
    /\ [](n_yield = pos - (IF pc = "check" THEN 1 ELSE 0))
    /\ [][(runFails' > runFails \/ pc = "except") =>
             pos' = pos /\ n_yield' = n_yield /\ stdout' = stdout]_vars
    /\ [](IsPrefix(stdout, LinesUpTo(pos)))
    /\ [](\A k \in 1..(Len(FidsOf(stdout)) - 1) :
             FidsOf(stdout)[k] <= FidsOf(stdout)[k + 1])

\* the second feature yielded, each of the two after two failed calls and
\* two retries
C16_Witness ==
    /\ pc = "yielded"
    /\ env.faults = 4
    /\ faults = 0
    /\ retried = <<1, 2>>
    /\ n_yield = 2
    /\ feat = FeatureAt(2)
    /\ IsPrefix(LinesUpTo(1), stdout)

---------------------------------------------------------------------------
(* C17 *)

\* C17 (frame of a failed fetch): a failed call of the cursor changes neither
\* the backoff level, the count of features, the cached schema nor the output;
\* the retry that follows it raises the level by exactly 1 and leaves the
\* count, the schema and the output as they were, and giving up leaves all
\* four.  The count never decreases: it grows by exactly 1 at a time, not at
\* the yield of a feature but when the generator is resumed after the consumer
\* has written all the lines and warnings of that feature.
C17_FailureFrame ==
    /\ [][(pc = "fetch" /\ pc' = "except") =>
             UNCHANGED <<backoff, n_features, schema, captures, stdout,
                         n_warn, progress, n_yield>>]_vars
    /\ [][(pc = "except" /\ pc' = "fetch") =>
             /\ backoff' = backoff + 1
             /\ UNCHANGED <<n_features, schema, captures, stdout, n_warn,
                            progress, n_yield>>]_vars
    /\ [][(pc = "except" /\ pc' # "fetch") =>
             UNCHANGED <<backoff, n_features, schema, captures, stdout,
                         n_warn, progress, n_yield>>]_vars
    /\ [][n_features' \in {n_features, n_features + 1}]_vars
    /\ [][n_yield' # n_yield => n_features' = n_features]_vars
    /\ [][n_features' # n_features =>
             /\ pc = "yielded"
             /\ n_features' = n_yield
             /\ curLines + curWarns = Len(g_attrs)
             /\ stdout = LinesUpTo(n_yield)
             /\ n_warn = NullsUpTo(n_yield)]_vars

\* after one feature was counted and written, a failed call and one retry
C17_Witness ==
    /\ pc = "fetch"
    /\ backoff = 1
    /\ slept = <<1>>
    /\ runFails = 1
    /\ n_features = 1
    /\ schema # Unbound
    /\ Len(stdout) = 2

---------------------------------------------------------------------------
(* C18 *)

RECURSIVE SumSeq(_)
SumSeq(s) == IF s = <<>> THEN 0 ELSE Head(s) + SumSeq(Tail(s))

\* C18 (backoff level): the level is always one of 0, 1, 2, 3; a sleep is
\* only ever started at level 0, 1 or 2 and lasts 1, 2 or 4 seconds
\* respectively; so the seconds slept since the last success, and those slept
\* between two successes in a row, never exceed 7, and are exactly 7 when the
\* loop gives up.
C18_BackoffLevel ==
    /\ [](backoff \in 0..3)
    /\ [][Len(slept') > Len(slept) =>
             /\ backoff \in {0, 1, 2}
             /\ slept' = Append(slept, CASE backoff = 0 -> 1
                                         [] backoff = 1 -> 2
                                         [] backoff = 2 -> 4)]_vars
    /\ [](\A k \in 1..Len(slept) : slept[k] \in {1, 2, 4})
    /\ [](SumSeq(slept) <= 7 /\ SumSeq(retried) <= 7)
    /\ [](term = "ABORTED" => SumSeq(slept) = 7)

\* the third sleep of a run of failures between two features: 7 seconds
C18_Witness ==
    /\ pc = "fetch"
    /\ n_features = 1
    /\ backoff = 3
    /\ SumSeq(slept) = 7
    /\ pos < env.layer.total

---------------------------------------------------------------------------
(* C19 *)

\* the loop is running
InLoop == pc \in {"fetch", "except", "check", "yielded"}

\* C19 (the 'last feature' branch is dead): every None the cursor returns is
\* raised as a failure inside the try block, so the code after the try block
\* only ever sees the feature the cursor has just returned, never None, and the
\* branch that would end the loop as exhausted is never taken; the loop is left
\* only from the except block, on the 4th failed call in a row, as aborted; and
\* the run over a layer without features ends this way with a final count of 0,
\* no schema captured, nothing yielded and nothing written.
C19_LastFeatureBranchDead ==
    /\ [][(calls' # calls /\ feat' = None) => pc' = "except"]_vars
    /\ [](pc = "check" => feat # None /\ feat # Unbound /\ feat = FeatureAt(pos))
    /\ [](term # "EXHAUSTED")
    /\ [][(InLoop /\ ~InLoop') =>
             /\ pc = "except"
             /\ pc' = "finish"
             /\ term' = "ABORTED"
             /\ backoff = 3
             /\ runFails = 4]_vars
    /\ []((Terminal /\ env.layer.total = 0) =>
             /\ calls = 4
             /\ n_features = 0
             /\ n_yield = 0
             /\ schema = Unbound
             /\ captures = <<>>
             /\ stdout = <<>>
             /\ pc # "finish" => summary = <<0>>)

\* the end of the run over a layer without features
C19_Witness ==
    /\ pc = "exited"
    /\ env.layer.total = 0
    /\ term = "ABORTED"
    /\ calls = 4
    /\ summary = <<0>>
    /\ captures = <<>>

====
